---- MODULE Spec2Model ----
(***************************************************************************)
(* Model of the chat streaming pipeline of adal_4naga-app:                 *)
(*   src/app/routes.py      chat_api, generate, save_messages_and_...      *)
(*   src/app/rag_service.py semantic_search, hybrid_search,                *)
(*                          RAGService.generate_response_streaming         *)
(* Text is modelled as a sequence of one-character strings, so that        *)
(* concatenation, length, lower-casing and substring search are computed.  *)
(***************************************************************************)
EXTENDS Integers, Sequences, FiniteSets, TLC

VARIABLES
    pc,              \* position of the generator generate()
    emitted,         \* records yielded to the client so far, in order
    bot_response,    \* nonlocal bot_response (accumulated answer text)
    stream_error,    \* nonlocal stream_error ("None" or a guard code)
    chunk_count,     \* local chunk_count
    now,             \* time.time(), in seconds since start_time
    last_chunk_time, \* local last_chunk_time
    pulled,          \* the non-empty chunks the source has yielded, in order
    pulls,           \* number of times the source has been advanced
    exc,             \* the exception being handled, or NoExc
    sem_failed,      \* the embedding step or index lookup raised
    analytics_data,  \* the request's analytics_data dict (fields used)
    threads_started, \* threading.Thread(...).start() calls that succeeded
    persist_pc,      \* position of save_messages_and_analytics_async
    store,           \* chat messages saved by save_chat_message, in order
    analytics_rows,  \* rows inserted into query_analytics
    error_logs,      \* rows inserted into error_logs
    call,            \* the last call of a retrieval or formatting function:
                     \* its name, its arguments and what it returned
    rag_service,     \* local rag_service of chat_api (line 275)
    persist_log,     \* the steps the persistence thread has taken and how
                     \* each ended, in order
    req_pc,          \* per request of one session: position of chat_api
    history,         \* per request: the messages fetched at line 263
    answer,          \* per request: its bot_response
    save_pc,         \* per request: position of its persistence thread
    session_store,   \* the session's messages in the store, in append order
    init_state,      \* _init_state: status and the services' statuses
    init_pc,         \* positions of create_app and its two init threads
    attempt,         \* loop variable of the Qdrant connectivity probe
    query_analytics, \* rows of query_analytics: query_text and keywords
    admin_notifications, \* titles inserted into admin_notifications
    anomalies,       \* the checks whose condition the tables now meet
    job_loops,       \* the two background job loops: running or ended
    last_cycle       \* the last operation on the analytics tables

vars == <<pc, emitted, bot_response, stream_error, chunk_count, now,
          last_chunk_time, pulled, pulls, exc, sem_failed, analytics_data,
          threads_started, persist_pc, store, analytics_rows, error_logs,
          call, rag_service, persist_log, req_pc, history, answer, save_pc,
          session_store, init_state, init_pc, attempt, query_analytics,
          admin_notifications, anomalies, job_loops, last_cycle>>

\* the variables of the two-request session and of the start-up
sessionVars == <<req_pc, history, answer, save_pc, session_store>>
initVars == <<init_state, init_pc, attempt>>
\* the analytics tables and the background jobs of AnalyticsService
maintVars == <<query_analytics, admin_notifications, anomalies, job_loops,
               last_cycle>>

\* the variables of the stream driver, its persistence thread and the
\* function calls
driverVars == <<pc, emitted, bot_response, stream_error, chunk_count, now,
                last_chunk_time, pulled, pulls, exc, sem_failed,
                analytics_data, threads_started, persist_pc, store,
                analytics_rows, error_logs, call, rag_service, persist_log>>

\* ---------------------------------------------------------------- bounds
\* max_chunks is 10000 in routes.py:355; the model scales it down.
max_chunks == 2
\* pulls of the source beyond max_chunks that the model explores
MaxExtraPulls == 2
MaxPulls == max_chunks + MaxExtraPulls

\* ------------------------------------------------------------- constants
\* routes.py:388  "if current_time - last_chunk_time > 30"
StreamTimeout == 30

\* ------------------------------------------------------------------ text
RECURSIVE Concat(_)
\* "".join(chunks): the concatenation of a sequence of texts
Concat(ss) == IF ss = <<>> THEN <<>> ELSE Head(ss) \o Concat(Tail(ss))

UpperLetters == <<"A", "B", "C", "D", "E", "F", "G", "H", "I", "J", "K", "L", "M",
                 "N", "O", "P", "Q", "R", "S", "T", "U", "V", "W", "X", "Y", "Z">>
LowerLetters == <<"a", "b", "c", "d", "e", "f", "g", "h", "i", "j", "k", "l", "m",
                 "n", "o", "p", "q", "r", "s", "t", "u", "v", "w", "x", "y", "z">>
\* str.lower() on one character
LowerChar(c) ==
    IF \E i \in 1..26 : UpperLetters[i] = c
    THEN LowerLetters[CHOOSE i \in 1..26 : UpperLetters[i] = c]
    ELSE c

\* str.lower()
Lower(s) == [i \in 1..Len(s) |-> LowerChar(s[i])]

\* needle in haystack (Python's substring test)
Contains(hay, needle) ==
    \E i \in 0..(Len(hay) - Len(needle)) :
        \A j \in 1..Len(needle) : hay[i + j] = needle[j]

\* ------------------------------------------------------------- retrieval
\* Scores are fixed-point: raw scores in hundredths, normalized scores in
\* 1/NormScale, weights in tenths, hybrid scores in 1/(10*NormScale).
NormScale == 1000
semantic_weight == 7
bm25_weight == 3
\* chat_api.generate calls rag_service.hybrid_search(user_message): top_k=6
DefaultTopK == 6

\* A hit as a retriever returns it: Document(page_content, metadata{score})
Hit(t, sc) == [text |-> t, score |-> sc]

RECURSIVE SeqMax(_)
SeqMax(s) == IF Len(s) = 1 THEN s[1]
             ELSE LET m == SeqMax(Tail(s)) IN IF s[1] >= m THEN s[1] ELSE m

RECURSIVE SeqMin(_)
SeqMin(s) == IF Len(s) = 1 THEN s[1]
             ELSE LET m == SeqMin(Tail(s)) IN IF s[1] <= m THEN s[1] ELSE m

RECURSIVE SeqSum(_)
SeqSum(s) == IF s = <<>> THEN 0 ELSE Head(s) + SeqSum(Tail(s))

Take(s, n) == IF Len(s) <= n THEN s ELSE SubSeq(s, 1, n)

\* the outcome of a call: an exception, or a value
Raised == [raised |-> TRUE, docs |-> <<>>]
Returned(d) == [raised |-> FALSE, docs |-> d]

\* semantic_search: embedding_model.encode and qdrant_client.query_points
\* are not wrapped in any try; either may raise, and the exception leaves
\* the function.  Otherwise at most top_k hits come back.
semantic_search(embed_ok, query_ok, hits, top_k) ==
    IF ~embed_ok THEN Raised
    ELSE IF ~query_ok THEN Raised
    ELSE Returned(Take(hits, top_k))

\* insert h into a list sorted by descending score, after its equals
RECURSIVE InsertByScore(_, _)
InsertByScore(sorted, h) ==
    IF sorted = <<>> THEN <<h>>
    ELSE IF h.score > Head(sorted).score THEN <<h>> \o sorted
    ELSE <<Head(sorted)>> \o InsertByScore(Tail(sorted), h)

\* sorted(range(len(scores)), key=lambda i: scores[i], reverse=True): stable
RECURSIVE SortByScore(_)
SortByScore(docs) ==
    IF docs = <<>> THEN <<>>
    ELSE InsertByScore(SortByScore(SubSeq(docs, 1, Len(docs) - 1)),
                       docs[Len(docs)])

\* bm25_search keeping every score that is not negative
bm25_search_keeps_zero(loaded, collection, top_k) ==
    IF ~loaded \/ collection = <<>> THEN <<>>
    ELSE SelectSeq(Take(SortByScore(collection), top_k),
                   LAMBDA h : h.score >= 0)

\* bm25_search: no index or no metadata gives []; otherwise the top_k
\* indices by descending score, of which only those with score > 0 are
\* kept.  collection[i] is document i of bm25_metadata with the score
\* bm25_index.get_scores gives it for the query.
bm25_search(loaded, collection, top_k) ==
    IF ~loaded \/ collection = <<>> THEN <<>>
    ELSE SelectSeq(Take(SortByScore(collection), top_k),
                   LAMBDA h : h.score > 0)

\* normalize_scores that maps a list of equal scores to 0
normalize_scores_equal_zero(results) ==
    IF results = <<>> THEN results
    ELSE LET scores      == [i \in 1..Len(results) |-> results[i].score]
             max_score   == SeqMax(scores)
             min_score   == SeqMin(scores)
             score_range == max_score - min_score
         IN  [i \in 1..Len(results) |->
                [text |-> results[i].text, score |-> results[i].score,
                 normalized_score |->
                    IF score_range > 0
                    THEN ((results[i].score - min_score) * NormScale)
                             \div score_range
                    ELSE 0]]

\* hybrid_search.normalize_scores
normalize_scores(results) ==
    IF results = <<>> THEN results
    ELSE LET scores      == [i \in 1..Len(results) |-> results[i].score]
             max_score   == SeqMax(scores)
             min_score   == SeqMin(scores)
             score_range == max_score - min_score
         IN  IF score_range > 0
             THEN [i \in 1..Len(results) |->
                     [text |-> results[i].text, score |-> results[i].score,
                      normalized_score |->
                        ((results[i].score - min_score) * NormScale)
                            \div score_range]]
             ELSE [i \in 1..Len(results) |->
                     [text |-> results[i].text, score |-> results[i].score,
                      normalized_score |-> NormScale]]

\* index of the entry of combined keyed by text t, 0 when absent
KeyIndex(combined, t) ==
    IF \E i \in 1..Len(combined) : combined[i].text = t
    THEN CHOOSE i \in 1..Len(combined) : combined[i].text = t
    ELSE 0

\* the semantic loop storing the normalized score in both components
RECURSIVE AddSemantic_both(_, _)
AddSemantic_both(combined, results) ==
    IF results = <<>> THEN combined
    ELSE LET r == Head(results)
             e == [text |-> r.text, doc |-> r,
                   hybrid_score |-> r.normalized_score * semantic_weight,
                   semantic_score |-> r.normalized_score,
                   bm25_score |-> r.normalized_score]
             k == KeyIndex(combined, r.text)
         IN  AddSemantic_both(IF k = 0 THEN Append(combined, e)
                              ELSE [combined EXCEPT ![k] = e],
                              Tail(results))

\* "for result in semantic_results: combined[text] = {...}"
RECURSIVE AddSemantic(_, _)
AddSemantic(combined, results) ==
    IF results = <<>> THEN combined
    ELSE LET r == Head(results)
             e == [text |-> r.text, doc |-> r,
                   hybrid_score |-> r.normalized_score * semantic_weight,
                   semantic_score |-> r.normalized_score,
                   bm25_score |-> 0]
             k == KeyIndex(combined, r.text)
         IN  AddSemantic(IF k = 0 THEN Append(combined, e)
                         ELSE [combined EXCEPT ![k] = e],
                         Tail(results))

\* "for result in bm25_results: if text in combined: ... else: ..."
RECURSIVE AddBm25(_, _)
AddBm25(combined, results) ==
    IF results = <<>> THEN combined
    ELSE LET r == Head(results)
             k == KeyIndex(combined, r.text)
             e == [text |-> r.text, doc |-> r,
                   hybrid_score |-> r.normalized_score * bm25_weight,
                   semantic_score |-> 0,
                   bm25_score |-> r.normalized_score]
         IN  AddBm25(IF k = 0 THEN Append(combined, e)
                     ELSE [combined EXCEPT
                             ![k].bm25_score = r.normalized_score,
                             ![k].hybrid_score =
                                 @ + r.normalized_score * bm25_weight],
                     Tail(results))

\* the insertion placing e before its equals (an unstable sort)
RECURSIVE InsertDesc_before_equals(_, _)
InsertDesc_before_equals(sorted, e) ==
    IF sorted = <<>> THEN <<e>>
    ELSE IF e.hybrid_score >= Head(sorted).hybrid_score THEN <<e>> \o sorted
    ELSE <<Head(sorted)>> \o InsertDesc_before_equals(Tail(sorted), e)

\* insert e into a list sorted by descending hybrid_score, after its equals
RECURSIVE InsertDesc(_, _)
InsertDesc(sorted, e) ==
    IF sorted = <<>> THEN <<e>>
    ELSE IF e.hybrid_score > Head(sorted).hybrid_score THEN <<e>> \o sorted
    ELSE <<Head(sorted)>> \o InsertDesc(Tail(sorted), e)

\* sorted(combined.values(), key=hybrid_score, reverse=True): stable
RECURSIVE SortDesc(_)
SortDesc(entries) ==
    IF entries = <<>> THEN <<>>
    ELSE InsertDesc(SortDesc(SubSeq(entries, 1, Len(entries) - 1)),
                    entries[Len(entries)])

\* hybrid_search with the semantic call wrapped in a try that falls back
\* to keyword-only results
hybrid_search_swallows(embed_ok, query_ok, hits, bm25_loaded, bm25_ranked, top_k) ==
    LET sem == semantic_search(embed_ok, query_ok, hits, top_k * 2)
        bm25_results ==
            normalize_scores(bm25_search(bm25_loaded, bm25_ranked, top_k * 2))
        combined == AddBm25(AddSemantic(<<>>, normalize_scores(sem.docs)),
                            bm25_results)
        sorted_results == Take(SortDesc(combined), top_k)
    IN  Returned([i \in 1..Len(sorted_results) |->
           [text |-> sorted_results[i].text,
            score |-> sorted_results[i].doc.score,
            normalized_score |-> sorted_results[i].doc.normalized_score,
            hybrid_score |-> sorted_results[i].hybrid_score,
            semantic_score |-> sorted_results[i].semantic_score,
            bm25_score |-> sorted_results[i].bm25_score]])

\* hybrid_search: semantic_search is called outside any try, so its
\* exception is the exception of hybrid_search.
hybrid_search(embed_ok, query_ok, hits, bm25_loaded, bm25_ranked, top_k) ==
    LET sem == semantic_search(embed_ok, query_ok, hits, top_k * 2)
    IN  IF sem.raised THEN Raised
        ELSE LET semantic_results == normalize_scores(sem.docs)
                 bm25_results ==
                     normalize_scores(
                         bm25_search(bm25_loaded, bm25_ranked, top_k * 2))
                 combined == AddBm25(AddSemantic(<<>>, semantic_results),
                                     bm25_results)
                 sorted_results == Take(SortDesc(combined), top_k)
             IN  Returned([i \in 1..Len(sorted_results) |->
                    [text |-> sorted_results[i].text,
                     score |-> sorted_results[i].doc.score,
                     normalized_score |->
                         sorted_results[i].doc.normalized_score,
                     hybrid_score |-> sorted_results[i].hybrid_score,
                     semantic_score |-> sorted_results[i].semantic_score,
                     bm25_score |-> sorted_results[i].bm25_score]])

\* RAGService.hybrid_search: the module function's docs as dicts
RAGService_hybrid_search(embed_ok, query_ok, hits, bm25_loaded, bm25_ranked) ==
    LET r == hybrid_search(embed_ok, query_ok, hits, bm25_loaded,
                           bm25_ranked, DefaultTopK)
    IN  IF r.raised THEN Raised
        ELSE Returned([i \in 1..Len(r.docs) |->
                [text |-> r.docs[i].text,
                 hybrid_score |-> r.docs[i].hybrid_score]])

\* retriever outputs the model explores
SemanticHitLists ==
    { <<>>,
      << Hit("d1", 90), Hit("d2", 40) >>,
      << Hit("d1", 50), Hit("d2", 50), Hit("d3", 10) >> }
Bm25Rankings ==
    { <<>>,
      << Hit("d2", 700), Hit("d4", 300), Hit("d5", 0) >> }

\* ---------------------------------------------------------------- inputs
ChatId == "chat-1"
\* data.get('message')
user_message == <<"h", "i">>

\* what one advance of chain.stream(inputs) can yield: "" or a fragment
Chunks == { <<>>, <<"a">>, <<"b", "c">> }
\* seconds that can pass before the source answers one advance
Delays == {0, 30, 31}

\* str(e) of the exceptions the model raises
MsgTimeout == <<"T", "i", "m", "e", "O", "u", "t">>
MsgRate    == <<"R", "a", "t", "e">>
MsgQuota   == <<"Q", "U", "O", "T", "A">>
MsgBoth    == <<"r", "a", "t", "e", " ", "t", "i", "m", "e", "o", "u", "t">>
MsgTimeOut == <<"t", "i", "m", "e", " ", "o", "u", "t">>
MsgBoom    == <<"b", "o", "o", "m">>
ErrorMessages == {MsgTimeout, MsgRate, MsgQuota, MsgBoth, MsgTimeOut, MsgBoom}
\* RuntimeError raised by Thread.start() when no thread can be created
MsgNoThread == <<"c", "a", "n", "'", "t", " ", "s", "t", "a", "r", "t", " ",
                 "n", "e", "w", " ", "t", "h", "r", "e", "a", "d">>

\* str(e) of the AttributeError raised by None.hybrid_search
MsgNoneType ==
    <<"'", "N", "o", "n", "e", "T", "y", "p", "e", "'", " ", "o", "b", "j",
      "e", "c", "t", " ", "h", "a", "s", " ", "n", "o", " ", "a", "t", "t",
      "r", "i", "b", "u", "t", "e", " ", "'", "h", "y", "b", "r", "i", "d",
      "_", "s", "e", "a", "r", "c", "h", "'">>
NoExc == [type |-> "None", msg |-> <<>>]
\* the requests of one chat session that the model lets overlap
Requests == {1, 2}

\* -------------------------------------------------------- stream records
\* json.dumps({'chat_id': chat_id})
ChatIdRecord == [chat_id |-> ChatId]
\* json.dumps({'token': chunk})
TokenRecord(chunk) == [token |-> chunk]

\* completion_data, with 'warning' only "if stream_error"
CompletionRecord(chunks, chars, elapsed, err) ==
    LET completion_data ==
            [done |-> TRUE, chunks |-> chunks, chars |-> chars,
             time |-> elapsed]
    IN  IF err # "None"
        THEN completion_data @@ [warning |-> err]
        ELSE completion_data

TimeoutUserMessage ==
    "The request took too long. Please try a simpler question."
BusyUserMessage ==
    "The service is currently busy. Please try again in a moment."
GenericUserMessage ==
    "An unexpected error occurred. Please try again."

\* the classification with the rate/quota test placed before the timeout
\* test
UserMessageFor_rate_first(error_msg) ==
    LET m == Lower(error_msg)
    IN  IF Contains(m, <<"r", "a", "t", "e">>)
           \/ Contains(m, <<"q", "u", "o", "t", "a">>)
        THEN BusyUserMessage
        ELSE IF Contains(m, <<"t", "i", "m", "e", "o", "u", "t">>)
        THEN TimeoutUserMessage
        ELSE GenericUserMessage

\* the if/elif/else on error_msg.lower() of the except block
UserMessageFor(error_msg) ==
    LET m == Lower(error_msg)
    IN  IF Contains(m, <<"t", "i", "m", "e", "o", "u", "t">>)
        THEN TimeoutUserMessage
        ELSE IF Contains(m, <<"r", "a", "t", "e">>)
                \/ Contains(m, <<"q", "u", "o", "t", "a">>)
        THEN BusyUserMessage
        ELSE GenericUserMessage

\* error_data of the except block
ErrorRecord(e, response) ==
    [error |-> "An error occurred while generating the response.",
     error_type |-> e.type,
     done |-> TRUE,
     partial |-> Len(response) > 0,
     user_message |-> UserMessageFor(e.msg)]

\* the places where generate() is suspended at a yield
YieldPoints == {"y_chat_id", "y_token", "y_done", "y_error"}

\* ------------------------------------------------------------------ Init
\* chat_api up to "return Response(generate(), ...)": the generator exists
\* and has not been advanced; bot_response = "", stream_error = None.
Init ==
    /\ pc = "start"
    /\ emitted = <<>>
    /\ bot_response = <<>>
    /\ stream_error = "None"
    /\ chunk_count = 0
    /\ now = 0
    /\ last_chunk_time = 0
    /\ pulled = <<>>
    /\ pulls = 0
    /\ exc = NoExc
    /\ sem_failed = FALSE
    /\ analytics_data = [documents_retrieved |-> 0, hybrid_score |-> <<>>]
    /\ threads_started = 0
    /\ persist_pc = "idle"
    /\ store = <<>>
    /\ analytics_rows = <<>>
    /\ error_logs = 0
    /\ call = [op |-> "none"]
    /\ rag_service = "unset"
    /\ persist_log = <<>>
    /\ req_pc = [r \in Requests |-> "idle"]
    /\ history = [r \in Requests |-> [status |-> 0, messages |-> <<>>]]
    /\ answer = [r \in Requests |-> <<>>]
    /\ save_pc = [r \in Requests |-> "idle"]
    /\ session_store = <<>>
    /\ init_state = [status |-> "not_started", supabase |-> "pending",
                     rag |-> "pending", analytics |-> "pending"]
    /\ init_pc = [main |-> "start", rag |-> "idle", analytics |-> "idle"]
    /\ attempt = 0
    /\ query_analytics = <<>>
    /\ admin_notifications = <<>>
    /\ anomalies = {}
    /\ job_loops = [keyword |-> "running", anomaly |-> "running"]
    /\ last_cycle = "none"

\* ------------------------------------------------------ adaptive retrieval
exhaustive_keywords ==
    {<<"a", "l", "l">>,
      <<"l", "i", "s", "t">>,
      <<"e", "v", "e", "r", "y">>,
      <<"g", "i", "v", "e", " ", "m", "e", " ", "a", "l", "l">>,
      <<"s", "h", "o", "w", " ", "m", "e", " ", "a", "l", "l">>,
      <<"h", "o", "w", " ", "m", "a", "n", "y">>,
      <<"w", "h", "a", "t", " ", "a", "r", "e", " ", "a", "l", "l">>,
      <<"e", "n", "u", "m", "e", "r", "a", "t", "e">>,
      <<"c", "o", "m", "p", "l", "e", "t", "e", " ", "l", "i", "s", "t">>}

\* the classifier matching the query as typed, without lower()
is_exhaustive_query_case_sensitive(query) ==
    \E keyword \in exhaustive_keywords : Contains(query, keyword)

is_exhaustive_query(query) ==
    LET query_lower == Lower(query)
    IN  \E keyword \in exhaustive_keywords : Contains(query_lower, keyword)

\* smart_retrieve; threshold = min(best_score * 1.5, 2.0) on scores in
\* hundredths is compared doubled: 2*score <= min(3*best_score, 400)
smart_retrieve(query, embed_ok, query_ok, hits, bm25_loaded, bm25_ranked) ==
    IF is_exhaustive_query(query)
    THEN LET r == hybrid_search(embed_ok, query_ok, hits, bm25_loaded,
                                bm25_ranked, 50)
         IN  IF r.raised THEN Raised
             ELSE IF r.docs = <<>> THEN Returned(<<>>)
             ELSE LET best_score == r.docs[1].score
                      threshold2 == IF best_score * 3 <= 400
                                    THEN best_score * 3 ELSE 400
                  IN  Returned(SelectSeq(r.docs,
                          LAMBDA d : d.score * 2 <= threshold2))
    ELSE hybrid_search(embed_ok, query_ok, hits, bm25_loaded, bm25_ranked, 6)

\* ------------------------------------------------- generate(): the driver
genUnchanged == <<threads_started, persist_pc, store, analytics_rows,
                  error_logs, call, persist_log, sessionVars, initVars,
               maintVars>>

\* what get_rag_service() hands back: the global rag_chain, which is the
\* RAGService once initialize_rag_service has set it and None before that
\* or when the initialisation failed; it has no raise statement
get_rag_service == {"RAGService", "None"}

\* lines 273-286 and 359: rag_service = get_rag_service(), whose
\* RuntimeError branch (the fallback stream) is never taken, then the
\* generator's first yield {'chat_id': chat_id}
StartStream ==
    /\ pc = "start"
    /\ rag_service' \in get_rag_service
    /\ emitted' = Append(emitted, ChatIdRecord)
    /\ pc' = "y_chat_id"
    /\ UNCHANGED <<bot_response, stream_error, chunk_count, now,
                   last_chunk_time, pulled, pulls, exc, sem_failed,
                   analytics_data>>
    /\ UNCHANGED genUnchanged

\* lines 361-372: context = rag_service.hybrid_search(user_message) and
\* the analytics fields taken from it.  sem_failed records that the
\* embedding step or the index lookup raised.
Retrieve ==
    /\ pc = "y_chat_id"
    /\ rag_service = "RAGService"
    /\ \E embed_ok \in BOOLEAN, query_ok \in BOOLEAN,
          hits \in SemanticHitLists, bm25_loaded \in BOOLEAN,
          bm25_ranked \in Bm25Rankings, m \in ErrorMessages :
         LET r == RAGService_hybrid_search(embed_ok, query_ok, hits,
                                           bm25_loaded, bm25_ranked)
             context == r.docs
             scores == [i \in 1..Len(context) |-> context[i].hybrid_score]
         IN  /\ sem_failed' = (sem_failed \/ ~embed_ok \/ ~query_ok)
             /\ IF r.raised
                THEN /\ exc' = [type |-> "RetrievalError", msg |-> m]
                     /\ pc' = "handler"
                     /\ UNCHANGED analytics_data
                ELSE /\ analytics_data' =
                           [documents_retrieved |-> Len(context),
                            hybrid_score |->
                               IF Len(scores) > 0
                               THEN <<SeqSum(scores) \div Len(scores)>>
                               ELSE <<>>]
                     /\ pc' = "loop"
                     /\ UNCHANGED exc
    /\ UNCHANGED <<emitted, bot_response, stream_error, chunk_count, now,
                   last_chunk_time, pulled, pulls>>
    /\ UNCHANGED <<rag_service, genUnchanged>>

\* line 363 when rag_service is None: the attribute lookup raises
\* AttributeError, which the except of line 423 takes
RetrieveOnNone ==
    /\ pc = "y_chat_id"
    /\ rag_service = "None"
    /\ exc' = [type |-> "AttributeError", msg |-> MsgNoneType]
    /\ pc' = "handler"
    /\ UNCHANGED <<emitted, bot_response, stream_error, chunk_count, now,
                   last_chunk_time, pulled, pulls, sem_failed,
                   analytics_data>>
    /\ UNCHANGED <<rag_service, genUnchanged>>

\* line 375, first advance of generate_response_streaming: chain.stream
\* first runs custom_retrieve (smart_retrieve -> hybrid_search ->
\* semantic_search); an exception there leaves the source
ChainRetrieve ==
    /\ pc = "loop"
    /\ \E embed_ok \in BOOLEAN, query_ok \in BOOLEAN,
          hits \in SemanticHitLists, bm25_loaded \in BOOLEAN,
          bm25_ranked \in Bm25Rankings, m \in ErrorMessages :
         LET r == smart_retrieve(user_message, embed_ok, query_ok, hits,
                                 bm25_loaded, bm25_ranked)
         IN  /\ sem_failed' = (sem_failed \/ ~embed_ok \/ ~query_ok)
             /\ IF r.raised
                THEN /\ exc' = [type |-> "RetrievalError", msg |-> m]
                     /\ pc' = "handler"
                ELSE /\ pc' = "stream"
                     /\ UNCHANGED exc
    /\ UNCHANGED <<emitted, bot_response, stream_error, chunk_count, now,
                   last_chunk_time, pulled, pulls, analytics_data>>
    /\ UNCHANGED <<rag_service, genUnchanged>>

\* lines 375-396: one advance of the source that yields chunk after d
\* seconds, and the loop body run on it
SourceYields ==
    /\ pc \in {"stream", "y_token"}
    /\ pulls < MaxPulls
    /\ \E chunk \in Chunks, d \in Delays :
         /\ pulls' = pulls + 1
         /\ now' = now + d
         /\ IF chunk = <<>>
            THEN /\ pc' = "stream"
                 /\ UNCHANGED <<bot_response, chunk_count, stream_error,
                                last_chunk_time, emitted, pulled>>
            ELSE /\ bot_response' = bot_response \o chunk
                 /\ chunk_count' = chunk_count + 1
                 /\ pulled' = Append(pulled, chunk)
                 /\ IF chunk_count' > max_chunks
                    THEN /\ stream_error' = "response_too_long"
                         /\ pc' = "after_loop"
                         /\ UNCHANGED <<last_chunk_time, emitted>>
                    ELSE IF now' - last_chunk_time > StreamTimeout
                    THEN /\ stream_error' = "stream_timeout"
                         /\ pc' = "after_loop"
                         /\ UNCHANGED <<last_chunk_time, emitted>>
                    ELSE /\ last_chunk_time' = now'
                         /\ emitted' = Append(emitted, TokenRecord(chunk))
                         /\ pc' = "y_token"
                         /\ UNCHANGED stream_error
    /\ UNCHANGED <<exc, sem_failed, analytics_data>>
    /\ UNCHANGED <<rag_service, genUnchanged>>

\* line 375: the source is exhausted (StopIteration ends the for loop)
SourceExhausted ==
    /\ pc \in {"stream", "y_token"}
    /\ \E d \in Delays : now' = now + d
    /\ pulls' = pulls + 1
    /\ pc' = "after_loop"
    /\ UNCHANGED <<emitted, bot_response, stream_error, chunk_count,
                   last_chunk_time, pulled, exc, sem_failed, analytics_data>>
    /\ UNCHANGED <<rag_service, genUnchanged>>

\* line 375: the language-model call raises while being advanced
SourceRaises ==
    /\ pc \in {"stream", "y_token"}
    /\ \E m \in ErrorMessages :
         exc' = [type |-> "GenerationError", msg |-> m]
    /\ pulls' = pulls + 1
    /\ pc' = "handler"
    /\ UNCHANGED <<emitted, bot_response, stream_error, chunk_count, now,
                   last_chunk_time, pulled, sem_failed, analytics_data>>
    /\ UNCHANGED <<rag_service, genUnchanged>>

\* lines 403-418: yield completion_data
YieldCompletion ==
    /\ pc = "after_loop"
    /\ emitted' = Append(emitted,
                         CompletionRecord(chunk_count, Len(bot_response),
                                          now, stream_error))
    /\ pc' = "y_done"
    /\ UNCHANGED <<bot_response, stream_error, chunk_count, now,
                   last_chunk_time, pulled, pulls, exc, sem_failed,
                   analytics_data>>
    /\ UNCHANGED <<rag_service, genUnchanged>>

\* the thread started before the completion record is yielded
StartPersistence_before_yield ==
    /\ pc = "after_loop"
    /\ persist_pc = "idle"
    /\ threads_started' = threads_started + 1
    /\ persist_pc' = "save_user"
    /\ UNCHANGED <<pc, emitted, bot_response, stream_error, chunk_count, now,
                   last_chunk_time, pulled, pulls, exc, sem_failed,
                   analytics_data, store, analytics_rows, error_logs, call,
                   rag_service, persist_log, sessionVars, initVars,
               maintVars>>

\* line 421: threading.Thread(target=save_..., daemon=True).start()
StartPersistence ==
    /\ pc = "y_done"
    /\ threads_started' = threads_started + 1
    /\ persist_pc' = "save_user"
    /\ pc' = "finished"
    /\ UNCHANGED <<emitted, bot_response, stream_error, chunk_count, now,
                   last_chunk_time, pulled, pulls, exc, sem_failed,
                   analytics_data, store, analytics_rows, error_logs, call,
                   rag_service, persist_log, sessionVars, initVars,
               maintVars>>

\* line 421 inside the try of line 351: Thread.start() raises RuntimeError
\* (no thread can be created) and the except of line 423 takes it
StartPersistenceFails ==
    /\ pc = "y_done"
    /\ exc' = [type |-> "RuntimeError", msg |-> MsgNoThread]
    /\ pc' = "handler"
    /\ UNCHANGED <<emitted, bot_response, stream_error, chunk_count, now,
                   last_chunk_time, pulled, pulls, sem_failed,
                   analytics_data>>
    /\ UNCHANGED <<rag_service, genUnchanged>>

\* lines 423-450: the except block up to "yield error_data"
HandleException ==
    /\ pc = "handler"
    /\ emitted' = Append(emitted, ErrorRecord(exc, bot_response))
    /\ pc' = "y_error"
    /\ UNCHANGED <<bot_response, stream_error, chunk_count, now,
                   last_chunk_time, pulled, pulls, exc, sem_failed,
                   analytics_data>>
    /\ UNCHANGED <<rag_service, genUnchanged>>

\* lines 452-454: "if bot_response: Thread(...).start()"; a start that
\* raises here is outside any try and ends the generator
SavePartial ==
    /\ pc = "y_error"
    /\ IF bot_response # <<>>
       THEN \E start_ok \in BOOLEAN :
              IF start_ok
              THEN /\ threads_started' = threads_started + 1
                   /\ persist_pc' = "save_user"
                   /\ pc' = "log_error"
              ELSE /\ pc' = "crashed"
                   /\ UNCHANGED <<threads_started, persist_pc>>
       ELSE /\ pc' = "log_error"
            /\ UNCHANGED <<threads_started, persist_pc>>
    /\ UNCHANGED <<emitted, bot_response, stream_error, chunk_count, now,
                   last_chunk_time, pulled, pulls, exc, sem_failed,
                   analytics_data, store, analytics_rows, error_logs, call,
                   rag_service, persist_log, sessionVars, initVars,
               maintVars>>

\* lines 456-469: insert into error_logs; its failure is caught
LogError ==
    /\ pc = "log_error"
    /\ \E insert_ok \in BOOLEAN :
         error_logs' = IF insert_ok THEN error_logs + 1 ELSE error_logs
    /\ pc' = "finished"
    /\ UNCHANGED <<emitted, bot_response, stream_error, chunk_count, now,
                   last_chunk_time, pulled, pulls, exc, sem_failed,
                   analytics_data, threads_started, persist_pc, store,
                   analytics_rows, call,
                   rag_service, persist_log, sessionVars, initVars,
               maintVars>>

\* the client goes away: the server closes the generator, GeneratorExit is
\* raised at the yield where it is suspended; it is not an Exception, so
\* the except of line 423 does not take it and nothing else runs
ClientDisconnect ==
    /\ pc \in YieldPoints
    /\ pc' = "closed"
    /\ UNCHANGED <<emitted, bot_response, stream_error, chunk_count, now,
                   last_chunk_time, pulled, pulls, exc, sem_failed,
                   analytics_data>>
    /\ UNCHANGED <<rag_service, genUnchanged>>

\* ------------------------- save_messages_and_analytics_async (the thread)
\* the routine without its outer try: the exception leaves the thread
OuterExcept_missing(outcome, next) ==
    IF outcome = "raise" THEN "escaped" ELSE next

\* the outer "except Exception as e" of lines 345-347: an exception raised
\* by a step is caught there and the routine returns
OuterExcept(outcome, next) == IF outcome = "raise" THEN "done" ELSE next

\* what save_chat_message can do: return status 200, return another
\* status, or raise
SaveOutcomes == {"ok", "non200", "raise"}

persistUnchanged == <<pc, emitted, bot_response, stream_error, chunk_count,
                      now, last_chunk_time, pulled, pulls, exc, sem_failed,
                      analytics_data, threads_started, error_logs, call,
                      rag_service, sessionVars, initVars,
               maintVars>>

\* one entry of persist_log
Step(name, outcome) == [step |-> name, outcome |-> outcome]

\* lines 296-301: save the user message
PersistSaveUser ==
    /\ persist_pc = "save_user"
    /\ \E outcome \in SaveOutcomes :
         /\ store' = IF outcome = "ok"
                     THEN Append(store, [role |-> "user",
                                         content |-> user_message])
                     ELSE store
         /\ persist_log' = Append(persist_log, Step("save_user", outcome))
         /\ persist_pc' = OuterExcept(outcome, "save_bot")
    /\ UNCHANGED analytics_rows
    /\ UNCHANGED persistUnchanged

\* a thread that saves the assistant turn whatever the text
ShouldSaveBot_always(response) == TRUE

\* line 304: "if bot_response:"
ShouldSaveBot(response) == response # <<>>

\* lines 303-309: "if bot_response:" save the bot message
PersistSaveBot ==
    /\ persist_pc = "save_bot"
    /\ IF ShouldSaveBot(bot_response)
       THEN \E outcome \in SaveOutcomes :
              /\ store' = IF outcome = "ok"
                          THEN Append(store, [role |-> "bot",
                                              content |-> bot_response])
                          ELSE store
              /\ persist_log' = Append(persist_log,
                                       Step("save_bot", outcome))
              /\ persist_pc' = OuterExcept(outcome, "analytics")
       ELSE /\ persist_pc' = "analytics"
            /\ UNCHANGED <<store, persist_log>>
    /\ UNCHANGED analytics_rows
    /\ UNCHANGED persistUnchanged

\* lines 311-343: keyword extraction (which catches its own failures and
\* returns a fallback) and the insert into query_analytics; an exception
\* is caught by the inner "except Exception as analytics_error"
PersistAnalytics ==
    /\ persist_pc = "analytics"
    /\ \E keywords_ok \in BOOLEAN, insert_ok \in BOOLEAN :
         /\ analytics_rows' =
               IF insert_ok
               THEN Append(analytics_rows,
                           [documents_retrieved |->
                                analytics_data.documents_retrieved,
                            hybrid_score |-> analytics_data.hybrid_score,
                            tokens_used |-> Len(bot_response),
                            keywords |-> IF keywords_ok THEN "tfidf"
                                         ELSE "fallback"])
               ELSE analytics_rows
         /\ persist_log' =
               Append(persist_log,
                      Step("analytics", IF insert_ok THEN "ok" ELSE "raise"))
    /\ persist_pc' = "done"
    /\ UNCHANGED store
    /\ UNCHANGED persistUnchanged

\* ------------------------------------------------------------------ Next
Next ==
    \/ StartStream
    \/ Retrieve
    \/ RetrieveOnNone
    \/ ChainRetrieve
    \/ SourceYields
    \/ SourceExhausted
    \/ SourceRaises
    \/ YieldCompletion
    \/ StartPersistence
    \/ StartPersistenceFails
    \/ HandleException
    \/ SavePartial
    \/ LogError
    \/ ClientDisconnect
    \/ PersistSaveUser
    \/ PersistSaveBot
    \/ PersistAnalytics

Spec == Init /\ [][Next]_vars

\* ---------------------------------------------------------------- claims
Last(s) == s[Len(s)]
\* a record with done = true
IsTerminal(r) == "done" \in DOMAIN r /\ r.done = TRUE
IsErrorRecord(r) == IsTerminal(r) /\ "error" \in DOMAIN r
IsCompletionRecord(r) == IsTerminal(r) /\ "error" \notin DOMAIN r
IsTokenRecord(r) == "token" \in DOMAIN r
DoneCount(s) == Cardinality({i \in 1..Len(s) : IsTerminal(s[i])})
\* generate() has run to its end (it was not closed by the client)
GeneratorEnded == pc \in {"finished", "crashed"}

\* C1: every run of the generator that is not closed by the client emits
\* exactly one record with done = true, and that record is the last one.
C1_ExactlyOneTerminalLast ==
    GeneratorEnded =>
        /\ DoneCount(emitted) = 1
        /\ IsTerminal(Last(emitted))

\* C2: for every stream that reached its end, the persistence routine was
\* started exactly once.
C2_PersistenceStartedOnce ==
    GeneratorEnded => threads_started = 1

\* C3: when the chunk cap trips, the driver has stopped at chunk
\* max_chunks and the accumulated answer is the concatenation of the
\* first max_chunks chunks of the source.
C3_StopsAtCap ==
    stream_error = "response_too_long" =>
        /\ chunk_count = max_chunks
        /\ bot_response = Concat(Take(pulled, max_chunks))

\* C4: when the inactivity guard trips on the gap between chunk i and
\* chunk i+1, the accumulated answer is the text of chunks 1..i.
C4_TimeoutKeepsEarlierChunks ==
    (stream_error = "stream_timeout" /\ Len(pulled) >= 2) =>
        bot_response = Concat(SubSeq(pulled, 1, Len(pulled) - 1))

\* C5: a generator closed by the client after some answer text was
\* accumulated has still started the persistence routine.  (In "closed"
\* no step of generate() is enabled any more, and only generate() starts
\* the thread.)
C5_DisconnectStillPersists ==
    (pc = "closed" /\ bot_response # <<>>) => threads_started >= 1

\* C6: every step of the persistence routine, failing or not, leaves the
\* routine without an escaped exception and leaves the emitted records and
\* the generator untouched.
C6_PersistenceFailuresContained ==
    [][(persist_pc # "idle" /\ persist_pc' # persist_pc) =>
         /\ persist_pc' # "escaped"
         /\ emitted' = emitted
         /\ pc' = pc]_vars

\* a persistence run in which the user save and the analytics insert
\* failed has ended, after a delivered stream
C6_Witness ==
    /\ persist_pc = "done"
    /\ threads_started = 1
    /\ store = <<>>
    /\ analytics_rows = <<>>
    /\ IsTerminal(Last(emitted))

\* C7: once the persistence task has been started, the terminal record has
\* been emitted, the driver is past every place that appends to
\* bot_response or sets stream_error, and any bot text saved is the
\* accumulated answer.
C7_PersistenceAfterTerminal ==
    persist_pc # "idle" =>
        /\ emitted # <<>>
        /\ IsTerminal(Last(emitted))
        /\ pc \in {"finished", "log_error"}
        /\ \A i \in 1..Len(store) :
              store[i].role = "bot" => store[i].content = bot_response

\* both turns were saved after a stream that delivered tokens
C7_Witness ==
    /\ persist_pc = "done"
    /\ Len(store) = 2
    /\ store[2].role = "bot"
    /\ \E i \in 1..Len(emitted) : IsTokenRecord(emitted[i])

\* C8: a stream on which a guard tripped ends with a completion record
\* whose warning is the guard's code, not with an error record; a
\* completion record of a stream without a tripped guard has no warning.
C8_GuardEndsWithCompletion ==
    /\ (GeneratorEnded /\ stream_error # "None") =>
          /\ IsCompletionRecord(Last(emitted))
          /\ "warning" \in DOMAIN Last(emitted)
          /\ Last(emitted).warning = stream_error
    /\ \A i \in 1..Len(emitted) :
          (IsCompletionRecord(emitted[i]) /\ stream_error = "None") =>
              "warning" \notin DOMAIN emitted[i]

\* the category each message of the model must get, written out by hand
ExpectedUserMessage(msg) ==
    CASE msg = MsgTimeout  -> TimeoutUserMessage
      [] msg = MsgBoth     -> TimeoutUserMessage
      [] msg = MsgRate     -> BusyUserMessage
      [] msg = MsgQuota    -> BusyUserMessage
      [] msg = MsgTimeOut  -> GenericUserMessage
      [] msg = MsgBoom     -> GenericUserMessage
      [] msg = MsgNoThread -> GenericUserMessage
      [] msg = MsgNoneType -> GenericUserMessage

\* C9: every error record carries the category of the raised message
\* (timeout before rate/quota before generic) and partial = true exactly
\* when the source had yielded some answer text.
C9_ErrorRecordCategory ==
    \A i \in 1..Len(emitted) :
        IsErrorRecord(emitted[i]) =>
            /\ emitted[i].user_message = ExpectedUserMessage(exc.msg)
            /\ emitted[i].partial = (pulled # <<>>)

\* generation raised a message holding both "rate" and "timeout" after
\* some text was accumulated
C9_Witness ==
    /\ exc = [type |-> "GenerationError", msg |-> MsgBoth]
    /\ pulled # <<>>
    /\ IsErrorRecord(Last(emitted))
    /\ Last(emitted).partial

\* C10: when the embedding step or the index lookup raised, the generator
\* is in its except block or the last record emitted is the terminal
\* error record.
C10_SemanticFailureEndsInError ==
    sem_failed =>
        \/ pc = "handler"
        \/ (emitted # <<>> /\ IsErrorRecord(Last(emitted)))

\* a stream whose semantic search raised has run to its end
C10_Witness ==
    /\ sem_failed
    /\ pc = "finished"
    /\ exc.type = "RetrievalError"

\* ------------------------------------------------- context formatting
\* sep.join(parts)
RECURSIVE Join(_, _)
Join(parts, sep) ==
    IF parts = <<>> THEN <<>>
    ELSE IF Len(parts) = 1 THEN parts[1]
    ELSE parts[1] \o sep \o Join(Tail(parts), sep)

\* s.replace(pat, rep): every non-overlapping pat, left to right
RECURSIVE Replace(_, _, _)
Replace(s, pat, rep) ==
    IF Len(s) < Len(pat) THEN s
    ELSE IF SubSeq(s, 1, Len(pat)) = pat
         THEN rep \o Replace(SubSeq(s, Len(pat) + 1, Len(s)), pat, rep)
         ELSE <<Head(s)>> \o Replace(Tail(s), pat, rep)

\* the last position of character c in s, 0 when there is none
LastPosOfChar(s, c) ==
    IF \E i \in 1..Len(s) : s[i] = c
    THEN CHOOSE i \in 1..Len(s) :
            s[i] = c /\ \A j \in (i + 1)..Len(s) : s[j] # c
    ELSE 0

\* source.replace("\\", "/").split("/")[-1]
Basename(source) ==
    LET p == Replace(source, <<"\\">>, <<"/">>)
    IN  SubSeq(p, LastPosOfChar(p, "/") + 1, Len(p))

\* src.rsplit('.', 1)[0]
RSplitDot(src) ==
    LET k == LastPosOfChar(src, ".")
    IN  IF k = 0 THEN src ELSE SubSeq(src, 1, k - 1)

\* meta.get(key, default)
Get(meta, key, default) == IF key \in DOMAIN meta THEN meta[key] ELSE default

StrDocument == <<"d", "o", "c", "u", "m", "e", "n", "t">>
StrDocumentTitle == <<"D", "o", "c", "u", "m", "e", "n", "t">>
StrOrdno == <<"O", "r", "d", "n", "o", "-">>
StrOrdinanceNo ==
    <<"O", "r", "d", "i", "n", "a", "n", "c", "e", " ", "N", "o", ".", " ">>
StrAbstract == <<"a", "b", "s", "t", "r", "a", "c", "t">>

\* the title of a label, from the file name of the source
TitleOf(meta) ==
    LET src == Basename(Get(meta, "source", StrDocument))
    IN  IF src # StrDocument
        THEN Replace(Replace(Replace(RSplitDot(src), StrOrdno, StrOrdinanceNo),
                             <<"-">>, <<" ">>), <<"_">>, <<" ">>)
        ELSE StrDocumentTitle

\* the label below a document: title, page, content type and chapter, as
\* a link when the document has a url
LabelOf(meta) ==
    LET page == Get(meta, "page", <<>>)
        content_type == Get(meta, "content_type", <<>>)
        chapter == Get(meta, "chapter", <<>>)
        url == Get(meta, "url", <<>>)
        label_parts ==
            <<TitleOf(meta)>>
            \o (IF page # <<>> THEN <<<<"p", ".">> \o page>> ELSE <<>>)
            \o (IF content_type # <<>>
                THEN <<(<<"(">> \o content_type \o <<")">>)>> ELSE <<>>)
            \o (IF chapter # <<>> THEN <<<<"C", "h", ".">> \o chapter>>
                ELSE <<>>)
        label == Join(label_parts, <<" ">>)
    IN  IF url # <<>>
        THEN <<"<", "a", " ", "h", "r", "e", "f", "=", "\"">> \o url
             \o <<"\"", " ", "t", "a", "r", "g", "e", "t", "=", "\"",
                  "_", "b", "l", "a", "n", "k", "\"", ">">>
             \o label \o <<"<", "/", "a", ">">>
        ELSE <<"[">> \o label \o <<"]">>

\* out.append(text + "\n" + label)
RenderDoc(doc) == doc.text \o <<"\n">> \o LabelOf(doc.meta)

\* an item is read when it is a Document object or a dict
IsReadable(doc) == doc.kind \in {"object", "dict"}
HasAbstractType(doc) == Get(doc.meta, "content_type", <<>>) = StrAbstract

\* a formatter that keeps the input order
format_docs_input_order(docs) ==
    LET readable == SelectSeq(docs, IsReadable)
    IN  Join([i \in 1..Len(readable) |-> RenderDoc(readable[i])],
             <<"\n", "\n">>)

\* format_docs(docs): abstracts first, then the others, each list in input
\* order; items that are neither objects nor dicts are skipped
format_docs(docs) ==
    LET readable == SelectSeq(docs, IsReadable)
        abstract_docs == SelectSeq(readable, HasAbstractType)
        other_docs == SelectSeq(readable, LAMBDA d : ~HasAbstractType(d))
        ordered == abstract_docs \o other_docs
    IN  Join([i \in 1..Len(ordered) |-> RenderDoc(ordered[i])],
             <<"\n", "\n">>)

\* ------------------------------------------------- history formatting
MaxBody == 500
StrHuman == <<"H", "u", "m", "a", "n">>
StrAssistant == <<"A", "s", "s", "i", "s", "t", "a", "n", "t">>
StrEllipsis == <<".", ".", ".">>

\* messages[-n:] for n >= 1: the last n messages, all of them if fewer
LastN(messages, n) ==
    SubSeq(messages, IF Len(messages) > n THEN Len(messages) - n + 1 ELSE 1,
           Len(messages))

\* one line of the history: the role label, then the body cut to MaxBody
HistoryLine_cut_at_limit(msg) ==
    LET role == IF msg.role = "user" THEN StrHuman ELSE StrAssistant
        content == IF Len(msg.content) >= MaxBody
                   THEN SubSeq(msg.content, 1, MaxBody) \o StrEllipsis
                   ELSE msg.content
    IN  role \o <<":", " ">> \o content

HistoryLine(msg) ==
    LET role == IF msg.role = "user" THEN StrHuman ELSE StrAssistant
        content == IF Len(msg.content) > MaxBody
                   THEN SubSeq(msg.content, 1, MaxBody) \o StrEllipsis
                   ELSE msg.content
    IN  role \o <<":", " ">> \o content

\* format_chat_history(messages, max_exchanges) on a list of messages
format_chat_history(messages, max_exchanges) ==
    IF messages = <<>> THEN <<>>
    ELSE LET recent_messages == LastN(messages, max_exchanges * 2)
         IN  Join([i \in 1..Len(recent_messages) |->
                      HistoryLine(recent_messages[i])], <<"\n">>)

\* ------------------------------------- calls of the retrieval functions
\* bounds of the inputs
MaxSemHits == 2
MaxBm25Docs == 2
MaxTopK == 2

\* the variables of the chat stream, which a function call leaves alone
streamVars == <<pc, emitted, bot_response, stream_error, chunk_count, now,
                last_chunk_time, pulled, pulls, exc, sem_failed,
                analytics_data, threads_started, persist_pc, store,
                analytics_rows, error_logs,
               rag_service, persist_log, sessionVars, initVars,
               maintVars>>

SeqsUpTo(S, n) == UNION {[1..k -> S] : k \in 0..n}
IsNonIncreasing(hits) ==
    \A i \in 1..(Len(hits) - 1) : hits[i].score >= hits[i + 1].score

\* what query_points can return: hits in descending similarity, two of
\* which may carry the same text; similarities may be zero or negative
SemanticHits == {Hit(t, sc) : t \in {"d1", "d2"}, sc \in {-20, 40, 90}}
SemanticResults ==
    {hits \in SeqsUpTo(SemanticHits, MaxSemHits) : IsNonIncreasing(hits)}
\* bm25_metadata with the scores get_scores gives, in index order
Bm25Docs == {Hit(t, sc) : t \in {"d2", "d3"}, sc \in {0, 300, 700}}
Bm25Collections == SeqsUpTo(Bm25Docs, MaxBm25Docs)
TopKs == 1..MaxTopK

\* queries
QListAll ==
    <<"l", "i", "s", "t", " ", "a", "l", "l", " ", "o", "r", "d", "i", "n",
      "a", "n", "c", "e", "s", " ", "a", "b", "o", "u", "t", " ", "z", "o",
      "n", "i", "n", "g">>
QWhatIs ==
    <<"w", "h", "a", "t", " ", "i", "s", " ", "o", "r", "d", "i", "n", "a",
      "n", "c", "e", " ", "2", "0", "2", "3", "-", "0", "5", " ", "a", "b",
      "o", "u", "t">>
QUpper ==
    <<"E", "N", "U", "M", "E", "R", "A", "T", "E", " ", "t", "h", "e", " ",
      "f", "e", "e", "s">>
QHowMany ==
    <<"H", "o", "w", " ", "M", "a", "n", "y", " ", "p", "e", "r", "m", "i",
      "t", "s">>
QBasically ==
    <<"b", "a", "s", "i", "c", "a", "l", "l", "y", " ", "f", "i", "n", "e">>
QEveryone == <<"e", "v", "e", "r", "y", "o", "n", "e">>
QHello == <<"h", "e", "l", "l", "o">>
QEmpty == <<>>
QSpaced == <<"l", "i", "s", " ", "t", " ", "a", "l", " ", "l">>
QHowmany == <<"h", "o", "w", "m", "a", "n", "y">>
Queries == {QListAll, QWhatIs, QUpper, QHowMany, QBasically, QEveryone,
            QHello, QEmpty, QSpaced, QHowmany}

\* a semantic search that raises hands back no hits
HitsWhen(ok) == IF ok THEN SemanticResults ELSE {<<>>}
\* load_bm25_index hands back (None, []) when the index files are missing
CollectionsWhen(loaded) == IF loaded THEN Bm25Collections ELSE {<<>>}

\* Each function is called once, from the initial state, on arguments
\* drawn from the sets above.
\* hybrid_search(query, ..., top_k) on given retriever behaviour
CallHybridSearch ==
    /\ call.op = "none"
    /\ \E embed_ok \in BOOLEAN, query_ok \in BOOLEAN,
          bm25_loaded \in BOOLEAN, top_k \in TopKs :
       \E hits \in HitsWhen(embed_ok /\ query_ok),
          collection \in CollectionsWhen(bm25_loaded) :
         call' = [op |-> "hybrid_search", embed_ok |-> embed_ok,
                  query_ok |-> query_ok, hits |-> hits,
                  bm25_loaded |-> bm25_loaded, collection |-> collection,
                  top_k |-> top_k,
                  out |-> hybrid_search(embed_ok, query_ok, hits,
                                        bm25_loaded, collection, top_k)]
    /\ UNCHANGED streamVars

\* smart_retrieve(query, ...) on given retriever behaviour
CallSmartRetrieve ==
    /\ call.op = "none"
    /\ \E query \in {QListAll, QWhatIs}, embed_ok \in BOOLEAN,
          bm25_loaded \in BOOLEAN :
       \E hits \in HitsWhen(embed_ok),
          collection \in CollectionsWhen(bm25_loaded) :
         call' = [op |-> "smart_retrieve", query |-> query,
                  embed_ok |-> embed_ok, hits |-> hits,
                  bm25_loaded |-> bm25_loaded, collection |-> collection,
                  out |-> smart_retrieve(query, embed_ok, TRUE, hits,
                                         bm25_loaded, collection)]
    /\ UNCHANGED streamVars

\* bm25_search(query, bm25_index, bm25_metadata, top_k)
CallBm25Search ==
    /\ call.op = "none"
    /\ \E bm25_loaded \in BOOLEAN, collection \in Bm25Collections,
          top_k \in TopKs :
         call' = [op |-> "bm25_search", bm25_loaded |-> bm25_loaded,
                  collection |-> collection, top_k |-> top_k,
                  out |-> bm25_search(bm25_loaded, collection, top_k)]
    /\ UNCHANGED streamVars

\* normalize_scores(results) on a retriever's result list
CallNormalizeScores ==
    /\ call.op = "none"
    /\ \E results \in SemanticResults \cup Bm25Collections :
         call' = [op |-> "normalize_scores", results |-> results,
                  out |-> normalize_scores(results)]
    /\ UNCHANGED streamVars

\* is_exhaustive_query(query)
CallIsExhaustiveQuery ==
    /\ call.op = "none"
    /\ \E query \in Queries :
         call' = [op |-> "is_exhaustive_query", query |-> query,
                  out |-> is_exhaustive_query(query)]
    /\ UNCHANGED streamVars

\* ------------------------------------------------- formatter inputs
MaxDocs == 2
\* retrieved items: Document objects, dicts, and one item that is neither;
\* each has a text of its own, which no label holds
DocAbstractLinked ==
    [kind |-> "object", text |-> <<"@", "1">>,
     meta |-> [source |-> <<"i", "n", "d", "e", "x", "/", "O", "r", "d", "n",
                            "o", "-", "2", "0", "2", "3", "_", "0", "5", ".",
                            "p", "d", "f">>,
               page |-> <<"3">>, content_type |-> StrAbstract,
               url |-> <<"h", "t", "t", "p", ":", "/", "/", "x", "/", "a">>,
               score |-> 10]]
DocChapter ==
    [kind |-> "object", text |-> <<"@", "2">>,
     meta |-> [source |-> <<"t", ".", "p", "d", "f">>,
               content_type |-> <<"c", "h", "a", "p", "t", "e", "r">>,
               chapter |-> <<"2">>, score |-> 90]]
DocAbstractDict ==
    [kind |-> "dict", text |-> <<"@", "3">>,
     meta |-> [content_type |-> StrAbstract]]
DocBareDict == [kind |-> "dict", text |-> <<"@", "4">>, meta |-> <<>>]
DocCapitalAbstract ==
    [kind |-> "object", text |-> <<"@", "5">>,
     meta |-> [source |-> <<"c", ":", "\\", "x", "\\", "y", ".", "z", ".",
                            "t", "x", "t">>,
               content_type |-> <<"A", "b", "s", "t", "r", "a", "c", "t">>]]
DocNotADocument == [kind |-> "other", text |-> <<"@", "6">>, meta |-> <<>>]
DocItems ==
    {DocAbstractLinked, DocChapter, DocAbstractDict, DocBareDict,
     DocCapitalAbstract, DocNotADocument}
DocLists == SeqsUpTo(DocItems, MaxDocs)

\* format_docs(docs)
CallFormatDocs ==
    /\ call.op = "none"
    /\ \E docs \in DocLists :
         call' = [op |-> "format_docs", docs |-> docs,
                  out |-> format_docs(docs)]
    /\ UNCHANGED streamVars

MaxMessages == 5
\* the route passes max_exchanges = 5; the model passes smaller limits so
\* that histories longer than the limit stay small
ExchangeLimits == {1, 2}
\* a body of n characters c
Body(c, n) == [i \in 1..n |-> c]
Messages ==
    {[role |-> "user", content |-> <<"h", "i">>],
     [role |-> "assistant", content |-> Body("y", MaxBody + 1)],
     [role |-> "user", content |-> Body("x", MaxBody)],
     [role |-> "assistant", content |-> <<"o", "k">>]}
Histories == SeqsUpTo(Messages, MaxMessages)

\* format_chat_history(messages, max_exchanges)
CallFormatChatHistory ==
    /\ call.op = "none"
    /\ \E messages \in Histories, max_exchanges \in ExchangeLimits :
         call' = [op |-> "format_chat_history", messages |-> messages,
                  max_exchanges |-> max_exchanges,
                  out |-> format_chat_history(messages, max_exchanges)]
    /\ UNCHANGED streamVars

\* the page contents of a list of documents
TextsOfDocs(docs) == [i \in 1..Len(docs) |-> docs[i].text]

\* routes.py 361-375 with rag_service.py 64-80 and 590-594: what one chat
\* request does with the index. generate() calls RAGService.hybrid_search
\* (k = 6) and derives the analytics fields from its result; the first
\* advance of generate_response_streaming then runs the chain, whose
\* "context" step custom_retrieve calls smart_retrieve on the question and
\* renders those documents, replacing the context that was passed in
CallChatRetrieval ==
    /\ call.op = "none"
    /\ \E query \in {QListAll, QWhatIs}, embed_ok \in BOOLEAN,
          bm25_loaded \in BOOLEAN :
       \E hits \in HitsWhen(embed_ok),
          collection \in CollectionsWhen(bm25_loaded) :
       \E context \in {RAGService_hybrid_search(embed_ok, TRUE, hits,
                                                bm25_loaded, collection)},
          docs \in {smart_retrieve(query, embed_ok, TRUE, hits,
                                   bm25_loaded, collection)} :
       \E scores \in {[i \in 1..Len(context.docs) |->
                          context.docs[i].hybrid_score]} :
         call' =
           [op |-> "chat_retrieval", query |-> query,
            embed_ok |-> embed_ok, hits |-> hits,
            bm25_loaded |-> bm25_loaded, collection |-> collection,
            raised |-> context.raised,
            searches |-> IF context.raised
                         THEN <<"hybrid_search">>
                         ELSE <<"hybrid_search", "smart_retrieve">>,
            documents_retrieved |-> Len(context.docs),
            hybrid_score |-> IF Len(scores) > 0
                             THEN <<SeqSum(scores) \div Len(scores)>>
                             ELSE <<>>,
            counted |-> TextsOfDocs(context.docs),
            rendered |-> IF context.raised \/ docs.raised THEN <<>>
                         ELSE TextsOfDocs(docs.docs)]
    /\ UNCHANGED streamVars

FnNext ==
    \/ CallHybridSearch
    \/ CallSmartRetrieve
    \/ CallBm25Search
    \/ CallNormalizeScores
    \/ CallIsExhaustiveQuery
    \/ CallFormatDocs
    \/ CallFormatChatHistory
    \/ CallChatRetrieval

FnSpec == Init /\ [][FnNext]_vars

\* ------------------------------------------------- claims on retrieval
\* what the two retrievers handed to the fusion in the recorded call
IsHybridCall == call.op = "hybrid_search" /\ ~call.out.raised
SemRet == Take(call.hits, call.top_k * 2)
KwRet == bm25_search(call.bm25_loaded, call.collection, call.top_k * 2)
TextsOf(hits) == {hits[i].text : i \in 1..Len(hits)}
\* the merged candidates, in first-seen order
Candidates ==
    AddBm25(AddSemantic(<<>>, normalize_scores(SemRet)),
            normalize_scores(KwRet))
\* index of the last hit of a list that carries text t
LastIndexOf(hits, t) ==
    CHOOSE i \in 1..Len(hits) :
        /\ hits[i].text = t
        /\ \A j \in (i + 1)..Len(hits) : hits[j].text # t
\* candidate a of cands is ranked before candidate b
RankedBefore(cands, a, b) ==
    \/ cands[a].hybrid_score > cands[b].hybrid_score
    \/ /\ cands[a].hybrid_score = cands[b].hybrid_score
       /\ a < b
\* the candidate each result of the recorded call was made from
ChosenOf(cands) ==
    [i \in 1..Len(call.out.docs) |-> KeyIndex(cands, call.out.docs[i].text)]

\* C11: every result of hybrid_search has hybrid_score = semantic_score *
\* 0.7 + bm25_score * 0.3, both components in [0,1] and hybrid_score >= 0.
C11_HybridScoreFormula ==
    IsHybridCall =>
        \A i \in 1..Len(call.out.docs) :
            LET d == call.out.docs[i]
            IN  /\ d.hybrid_score = d.semantic_score * semantic_weight
                                    + d.bm25_score * bm25_weight
                /\ d.semantic_score \in 0..NormScale
                /\ d.bm25_score \in 0..NormScale
                /\ d.hybrid_score >= 0

\* C12: the output of hybrid_search is the first top_k of the merged
\* candidates in non-increasing hybrid_score, equal scores in first-seen
\* order; so it has at most top_k entries.
C12_TopKStableOrder ==
    IsHybridCall =>
        LET out == call.out.docs
            cands == Candidates
            chosen == ChosenOf(cands)
        IN  /\ Len(out) <= call.top_k
            /\ Len(out) = IF Len(cands) <= call.top_k
                          THEN Len(cands) ELSE call.top_k
            /\ \A i \in 1..Len(out) :
                  /\ chosen[i] # 0
                  /\ out[i].hybrid_score = cands[chosen[i]].hybrid_score
            /\ \A i \in 1..Len(out), j \in 1..Len(out) :
                  i < j => RankedBefore(cands, chosen[i], chosen[j])
            /\ \A q \in 1..Len(cands) :
                  (\A i \in 1..Len(out) : chosen[i] # q) =>
                      \A i \in 1..Len(out) :
                          RankedBefore(cands, chosen[i], q)

\* a call whose candidates were cut at top_k through a tie
C12_Witness ==
    /\ IsHybridCall
    /\ LET cands == Candidates
           chosen == ChosenOf(cands)
       IN  /\ Len(cands) > call.top_k
           /\ \E q \in 1..Len(cands) :
                 /\ \A i \in 1..Len(call.out.docs) : chosen[i] # q
                 /\ cands[q].hybrid_score
                       = call.out.docs[Len(call.out.docs)].hybrid_score

\* C13: when no candidate is cut off, a keyword-only document is in the
\* output with semantic_score 0 and a semantic-only document with
\* bm25_score 0.
C13_AbsentComponentIsZero ==
    (IsHybridCall
       /\ Cardinality(TextsOf(SemRet) \cup TextsOf(KwRet)) <= call.top_k) =>
        /\ \A t \in TextsOf(KwRet) \ TextsOf(SemRet) :
              \E i \in 1..Len(call.out.docs) :
                  /\ call.out.docs[i].text = t
                  /\ call.out.docs[i].semantic_score = 0
        /\ \A t \in TextsOf(SemRet) \ TextsOf(KwRet) :
              \E i \in 1..Len(call.out.docs) :
                  /\ call.out.docs[i].text = t
                  /\ call.out.docs[i].bm25_score = 0

\* a call with one semantic-only and one keyword-only document, none cut
C13_Witness ==
    /\ IsHybridCall
    /\ Cardinality(TextsOf(SemRet) \cup TextsOf(KwRet)) <= call.top_k
    /\ TextsOf(KwRet) \ TextsOf(SemRet) # {}
    /\ TextsOf(SemRet) \ TextsOf(KwRet) # {}

\* (s - min) / (max - min) of hit j of a list, in 1/NormScale, 1.0 when
\* the list has one value only: n is that value iff IsMinMaxOf(hits, j, n)
IsMinMaxOf(hits, j, n) ==
    LET scores == {hits[i].score : i \in 1..Len(hits)}
        hi == CHOOSE x \in scores : \A y \in scores : x >= y
        lo == CHOOSE x \in scores : \A y \in scores : x <= y
    IN  IF hi = lo THEN n = NormScale
        ELSE /\ n * (hi - lo) <= (hits[j].score - lo) * NormScale
             /\ (hits[j].score - lo) * NormScale < (n + 1) * (hi - lo)

\* C14: normalize_scores gives a same-length list in [0,1] by min-max
\* scaling, all 1.0 when the inputs are equal, 1.0 for the maximum and 0.0
\* for the minimum when they differ, the empty list for the empty list;
\* and in hybrid_search the semantic component depends on the semantic
\* list only and the keyword component on the keyword list only.
C14_NormalizerMinMax ==
    /\ call.op = "normalize_scores" =>
          LET in == call.results
              out == call.out
          IN  /\ Len(out) = Len(in)
              /\ in = <<>> => out = <<>>
              /\ \A i \in 1..Len(in) :
                    /\ out[i].normalized_score \in 0..NormScale
                    /\ IsMinMaxOf(in, i, out[i].normalized_score)
                    /\ (\A j \in 1..Len(in) : in[j].score = in[i].score)
                          => out[i].normalized_score = NormScale
                    /\ (\E j \in 1..Len(in) : in[j].score # in[i].score) =>
                          /\ (\A j \in 1..Len(in) : in[j].score <= in[i].score)
                                => out[i].normalized_score = NormScale
                          /\ (\A j \in 1..Len(in) : in[j].score >= in[i].score)
                                => out[i].normalized_score = 0
    /\ IsHybridCall =>
          \A i \in 1..Len(call.out.docs) :
              LET d == call.out.docs[i]
              IN  /\ d.text \in TextsOf(SemRet) =>
                        IsMinMaxOf(SemRet, LastIndexOf(SemRet, d.text),
                                   d.semantic_score)
                  /\ d.text \in TextsOf(KwRet) =>
                        IsMinMaxOf(KwRet, LastIndexOf(KwRet, d.text),
                                   d.bm25_score)

\* a list of two equal scores was normalized
C14_Witness ==
    /\ call.op = "normalize_scores"
    /\ Len(call.results) = 2
    /\ call.results[1].score = call.results[2].score
    /\ call.out[1].normalized_score = NormScale

\* C15: bm25_search returns at most top_k documents of the collection, all
\* with score > 0, in non-increasing score order, and the empty list when
\* no index or no collection is loaded.
C15_Bm25PositiveTopK ==
    call.op = "bm25_search" =>
        /\ Len(call.out) <= call.top_k
        /\ \A i \in 1..Len(call.out) :
              /\ call.out[i].score > 0
              /\ \E j \in 1..Len(call.collection) :
                    call.out[i] = call.collection[j]
        /\ IsNonIncreasing(call.out)
        /\ (~call.bm25_loaded \/ call.collection = <<>>) => call.out = <<>>

\* a zero-score document was within the top_k and was left out
C15_Witness ==
    /\ call.op = "bm25_search"
    /\ call.bm25_loaded
    /\ call.top_k = Len(call.collection)
    /\ \E j \in 1..Len(call.collection) : call.collection[j].score = 0
    /\ \E j \in 1..Len(call.collection) : call.collection[j].score > 0
    /\ Len(call.out) < call.top_k

\* whether each query of the model holds a trigger phrase once
\* lower-cased, written out by hand
ExpectedExhaustive(query) ==
    CASE query = QListAll   -> TRUE
      [] query = QWhatIs    -> FALSE
      [] query = QUpper     -> TRUE
      [] query = QHowMany   -> TRUE
      [] query = QBasically -> TRUE
      [] query = QEveryone  -> TRUE
      [] query = QHello     -> FALSE
      [] query = QEmpty     -> FALSE
      [] query = QSpaced    -> FALSE
      [] query = QHowmany   -> FALSE

\* C16: is_exhaustive_query is true exactly for the queries that hold a
\* trigger phrase once lower-cased.
C16_ExhaustiveClassifier ==
    call.op = "is_exhaustive_query" =>
        call.out = ExpectedExhaustive(call.query)

\* "list all ordinances about zoning" was classified exhaustive
C16_Witness ==
    /\ call.op = "is_exhaustive_query"
    /\ call.query = QListAll
    /\ call.out = TRUE

\* C17: on the exhaustive path the threshold is min(1.5 * s, 2.0) for s
\* the raw semantic score of the top fused result, and a fused candidate
\* is returned exactly when its raw semantic score is <= the threshold, in
\* fused order; on the specific path the result is the fusion with k = 6.
C17_ThresholdOnSemanticScore ==
    (call.op = "smart_retrieve" /\ ~call.out.raised) =>
        IF call.query = QListAll
        THEN LET fused == hybrid_search(call.embed_ok, TRUE, call.hits,
                                        call.bm25_loaded, call.collection,
                                        50).docs
                 RawSem(t) == call.hits[LastIndexOf(call.hits, t)].score
             IN  fused # <<>> =>
                   /\ fused[1].text \in TextsOf(call.hits)
                   /\ LET s == RawSem(fused[1].text)
                          threshold2 == IF 3 * s <= 400 THEN 3 * s ELSE 400
                      IN  /\ \A i \in 1..Len(fused) :
                                fused[i].text \in TextsOf(call.hits) =>
                                   ((\E j \in 1..Len(call.out.docs) :
                                        call.out.docs[j] = fused[i])
                                    <=> 2 * RawSem(fused[i].text)
                                            <= threshold2)
                          /\ call.out.docs =
                                SelectSeq(fused, LAMBDA d :
                                    \E j \in 1..Len(call.out.docs) :
                                        call.out.docs[j] = d)
        ELSE call.out = hybrid_search(call.embed_ok, TRUE, call.hits,
                                      call.bm25_loaded, call.collection, 6)

\* ------------------------------------------------- claims on formatting
\* the first and the last position at which part starts in text, 0 for none
StartsAt(text, part, i) ==
    /\ i + Len(part) - 1 <= Len(text)
    /\ SubSeq(text, i, i + Len(part) - 1) = part
FirstPos(text, part) ==
    IF \E i \in 1..Len(text) : StartsAt(text, part, i)
    THEN CHOOSE i \in 1..Len(text) :
            /\ StartsAt(text, part, i)
            /\ \A j \in 1..(i - 1) : ~StartsAt(text, part, j)
    ELSE 0
LastPos(text, part) ==
    IF \E i \in 1..Len(text) : StartsAt(text, part, i)
    THEN CHOOSE i \in 1..Len(text) :
            /\ StartsAt(text, part, i)
            /\ \A j \in (i + 1)..Len(text) : ~StartsAt(text, part, j)
    ELSE 0
\* the items of the model whose content_type is "abstract"
AbstractItems == {DocAbstractLinked, DocAbstractDict}
\* the items of the model that are documents of another content type
OtherItems == {DocChapter, DocBareDict, DocCapitalAbstract}

\* C18: in the output of format_docs every abstract document is rendered
\* before every non-abstract document, whatever the input order and the
\* scores; the empty list renders as the empty string.
C18_AbstractsFirst ==
    call.op = "format_docs" =>
        /\ call.docs = <<>> => call.out = <<>>
        /\ \A i \in 1..Len(call.docs), j \in 1..Len(call.docs) :
              (call.docs[i] \in AbstractItems /\ call.docs[j] \in OtherItems)
              => /\ FirstPos(call.out, call.docs[i].text) > 0
                 /\ FirstPos(call.out, call.docs[j].text) > 0
                 /\ LastPos(call.out, call.docs[i].text)
                       < FirstPos(call.out, call.docs[j].text)

\* a higher-scored chapter came before an abstract in the input
C18_Witness ==
    /\ call.op = "format_docs"
    /\ call.docs = <<DocChapter, DocAbstractLinked>>
    /\ FirstPos(call.out, DocAbstractLinked.text) = 1

\* the line a message is to be rendered as
ExpectedLine(msg) ==
    (CASE msg.role = "user" -> StrHuman
       [] msg.role = "assistant" -> StrAssistant)
    \o <<":", " ">>
    \o (CASE Len(msg.content) <= 500 -> msg.content
          [] Len(msg.content) > 500 ->
                [i \in 1..503 |-> IF i <= 500 THEN msg.content[i] ELSE "."])

\* C19: format_chat_history renders exactly the last min(len(messages),
\* 2 * max_exchanges) messages, oldest first, one line each; a body longer
\* than 500 characters is cut to its first 500 characters followed by
\* "...", a shorter one is unchanged; the empty history renders as the
\* empty string.
C19_LastMessagesCutBodies ==
    call.op = "format_chat_history" =>
        LET len == Len(call.messages)
            n == IF len <= 2 * call.max_exchanges
                 THEN len ELSE 2 * call.max_exchanges
        IN  /\ len = 0 => call.out = <<>>
            /\ call.out = Join([i \in 1..n |->
                                   ExpectedLine(call.messages[len - n + i])],
                               <<"\n">>)

\* a history longer than the limit whose rendered part holds a body of
\* 500 characters and one of 501
C19_Witness ==
    /\ call.op = "format_chat_history"
    /\ Len(call.messages) > 2 * call.max_exchanges
    /\ \E i \in 1..(2 * call.max_exchanges) :
          Len(call.messages[Len(call.messages) + 1 - i].content) = 500
    /\ \E i \in 1..(2 * call.max_exchanges) :
          Len(call.messages[Len(call.messages) + 1 - i].content) = 501

\* ------------------------------------------------- a source that stalls
\* line 375: the for statement advances the source and the source neither
\* yields, ends nor raises (the model call is made without a timeout);
\* generate() stays inside that advance
SourceHangs ==
    /\ pc \in {"stream", "y_token"}
    /\ pc' = "blocked"
    /\ UNCHANGED <<emitted, bot_response, stream_error, chunk_count, now,
                   last_chunk_time, pulled, pulls, exc, sem_failed,
                   analytics_data>>
    /\ UNCHANGED <<rag_service, genUnchanged>>

\* time passes while generate() is blocked in the advance: lines 386-393
\* are in the loop body, which runs only when a chunk has arrived
Tick ==
    /\ pc = "blocked"
    /\ now - last_chunk_time <= StreamTimeout
    /\ \E d \in Delays \ {0} : now' = now + d
    /\ UNCHANGED <<pc, emitted, bot_response, stream_error, chunk_count,
                   last_chunk_time, pulled, pulls, exc, sem_failed,
                   analytics_data>>
    /\ UNCHANGED <<rag_service, genUnchanged>>

NextHang ==
    \/ Next
    \/ SourceHangs
    \/ Tick

SpecHang == Init /\ [][NextHang]_vars

\* C20: a stream that has entered streaming always ends completed or
\* errored with its terminal record: when the source has been silent for
\* more than 30 seconds the inactivity guard has set stream_error =
\* stream_timeout and the stream goes on to its terminal record.
C20_SilentSourceTimesOut ==
    (pc = "blocked" /\ now - last_chunk_time > StreamTimeout) =>
        stream_error = "stream_timeout"

\* ------------------------------------------ claims about the saved turns
\* no step of the persistence run has failed so far
NoStepFailed == \A i \in 1..Len(persist_log) : persist_log[i].outcome = "ok"
UserTurn == [role |-> "user", content |-> user_message]
BotTurn == [role |-> "bot", content |-> bot_response]

\* C21: in a persistence run with no failing step the user turn is saved
\* first, the assistant turn is saved next exactly when the answer text is
\* non-empty, and exactly one analytics record is inserted, last.
C21_OrderedPersistence ==
    (persist_pc # "idle" /\ NoStepFailed) =>
        LET turns == IF bot_response # <<>> THEN <<UserTurn, BotTurn>>
                     ELSE <<UserTurn>>
        IN  CASE persist_pc = "save_user" ->
                   store = <<>> /\ analytics_rows = <<>>
              [] persist_pc = "save_bot" ->
                   store = <<UserTurn>> /\ analytics_rows = <<>>
              [] persist_pc = "analytics" ->
                   store = turns /\ analytics_rows = <<>>
              [] persist_pc = "done" ->
                   store = turns /\ Len(analytics_rows) = 1
              [] OTHER -> FALSE

\* a finished run without a failure for a stream with no answer text: only
\* the user turn and the analytics record were written
C21_Witness ==
    /\ persist_pc = "done"
    /\ NoStepFailed
    /\ bot_response = <<>>
    /\ store = <<UserTurn>>
    /\ Len(analytics_rows) = 1

\* C23: at every terminal state the accumulated answer is the
\* concatenation of the emitted token fragments, and the completion
\* record's chunks field is the number of token records emitted.
C23_AnswerIsEmittedTokens ==
    (emitted # <<>> /\ IsTerminal(Last(emitted))) =>
        LET tokens == SelectSeq(emitted, IsTokenRecord)
        IN  /\ bot_response = Concat([i \in 1..Len(tokens) |->
                                          tokens[i].token])
            /\ IsCompletionRecord(Last(emitted)) =>
                   Last(emitted).chunks = Len(tokens)

\* C27: a failure of an earlier persistence step, by raising or by a
\* non-200 status, does not prevent the later steps: a finished run has
\* attempted the assistant save when there is answer text, and the
\* analytics insert.
C27_LaterStepsStillRun ==
    persist_pc = "done" =>
        /\ \E i \in 1..Len(persist_log) : persist_log[i].step = "analytics"
        /\ bot_response # <<>> =>
              \E i \in 1..Len(persist_log) : persist_log[i].step = "save_bot"

\* line 280: the text generate_fallback sends, one character per token
FallbackResponse ==
    <<"I", " ", "a", "p", "o", "l", "o", "g", "i", "z", "e", ",", " ", "b",
      "u", "t", " ", "t", "h", "e", " ", "A", "I", " ", "s", "y", "s", "t",
      "e", "m", " ", "i", "s", " ", "c", "u", "r", "r", "e", "n", "t", "l",
      "y", " ", "u", "n", "a", "v", "a", "i", "l", "a", "b", "l", "e", ".",
      " ", "P", "l", "e", "a", "s", "e", " ", "t", "r", "y", " ", "a", "g",
      "a", "i", "n", " ", "l", "a", "t", "e", "r", ".">>

\* lines 278-284: the records generate_fallback yields
generate_fallback ==
    <<ChatIdRecord>>
    \o [i \in 1..Len(FallbackResponse) |-> TokenRecord(<<FallbackResponse[i]>>)]
    \o <<[done |-> TRUE, error |-> "system_unavailable"]>>

\* C29: when the RAG service is not initialised the chat endpoint answers
\* with the fallback stream (chat_id, the apology tokens, then done with
\* error system_unavailable) and attempts no retrieval or generation.
C29_FallbackWhenUninitialised ==
    (rag_service = "None" /\ GeneratorEnded) => emitted = generate_fallback

\* C28: on the exhaustive path, whenever the fusion is non-empty its top
\* candidate passes the threshold filter, so the result is non-empty and
\* starts with that candidate, for every raw score (zero and negative
\* included).
C28_TopCandidateKept ==
    (call.op = "smart_retrieve" /\ call.query = QListAll
                                /\ ~call.out.raised) =>
        LET fused == hybrid_search(call.embed_ok, TRUE, call.hits,
                                   call.bm25_loaded, call.collection,
                                   50).docs
        IN  fused # <<>> =>
               /\ call.out.docs # <<>>
               /\ call.out.docs[1] = fused[1]

\* the same, for fusions whose top candidate has a negative raw score
C28_NegativeTopKept ==
    (call.op = "smart_retrieve" /\ call.query = QListAll
                                /\ ~call.out.raised) =>
        LET fused == hybrid_search(call.embed_ok, TRUE, call.hits,
                                   call.bm25_loaded, call.collection,
                                   50).docs
        IN  (fused # <<>> /\ fused[1].score < 0) => call.out.docs # <<>>

\* C24: retrieval is performed once per request, through the adaptive
\* controller, and the documents rendered into the context are the same
\* documents whose count and average hybrid score go to analytics.
C24_OneRetrievalFeedsBoth ==
    (call.op = "chat_retrieval" /\ ~call.raised) =>
        /\ call.searches = <<"smart_retrieve">>
        /\ call.rendered = call.counted
        /\ call.documents_retrieved = Len(call.rendered)

\* the weaker statement that at least the rendered documents are the
\* counted ones
C24_RenderedAreCounted ==
    (call.op = "chat_retrieval" /\ ~call.raised) =>
        call.rendered = call.counted

\* ------------------------------------------- background maintenance jobs
\* rows of query_analytics and of admin_notifications the model explores
MaxRows == 2
MaxNotifications == 4

\* extract_keywords_tfidf: no keywords for a text of fewer than three
\* characters, otherwise a list that depends on the text alone (here the
\* text itself, as its one keyword); it catches its own exceptions
extract_keywords_tfidf(text) == IF Len(text) < 3 THEN <<>> ELSE <<text>>

\* query texts: one too short for keywords, one with keywords
QueryTexts == {<<"h", "i">>, <<"z", "o", "n", "i", "n", "g">>}

\* the checks of run_anomaly_checks, in the order of its list
CheckTitles ==
    <<"Query Volume Spike Detected", "High Error Rate Detected",
      "Low User Satisfaction">>

\* update_query_keywords_batch: the rows without keywords get the
\* extracted keywords when there are any; a database call raises at row
\* fail_at (Len(rows) + 1: none raises) and the except of line 256 ends
\* the cycle there
update_query_keywords_batch(rows, fail_at) ==
    [i \in 1..Len(rows) |->
        LET keywords == extract_keywords_tfidf(rows[i].query_text)
        IN  IF i < fail_at /\ rows[i].keywords = <<>> /\ keywords # <<>>
            THEN [rows[i] EXCEPT !.keywords = keywords]
            ELSE rows[i]]

\* run_anomaly_checks: every check that returns a notification has it
\* inserted, in list order; an insert raises at notification fail_at
\* (one past the last: none raises) and the except of line 553 ends the
\* cycle there
run_anomaly_checks(table, found, fail_at) ==
    LET notifications == SelectSeq(CheckTitles, LAMBDA t : t \in found)
    IN  table \o Take(notifications, fail_at - 1)

\* the loops of lines 574-592: "while True: try: sleep; job() except
\* Exception: print"; an exception of a cycle is caught inside the loop
JobLoopAfter(raised) == "running"

\* routes.py 339: a chat request's analytics row arrives, with the
\* keywords its own extraction gave or without
QueryLogged ==
    /\ Len(query_analytics) < MaxRows
    /\ \E text \in QueryTexts, cached \in BOOLEAN :
         query_analytics' =
            Append(query_analytics,
                   [query_text |-> text,
                    keywords |-> IF cached
                                 THEN extract_keywords_tfidf(text)
                                 ELSE <<>>])
    /\ last_cycle' = "store_changed"
    /\ UNCHANGED <<admin_notifications, anomalies, job_loops>>
    /\ UNCHANGED <<driverVars, sessionVars, initVars>>

\* the counts that check_query_spike, check_error_rate and
\* check_satisfaction_drop read change with the traffic
TrafficChanges ==
    /\ \E found \in SUBSET {CheckTitles[i] : i \in 1..Len(CheckTitles)} :
         /\ found # anomalies
         /\ anomalies' = found
    /\ last_cycle' = "store_changed"
    /\ UNCHANGED <<query_analytics, admin_notifications, job_loops>>
    /\ UNCHANGED <<driverVars, sessionVars, initVars>>

\* one iteration of _keyword_job_loop
KeywordCycle ==
    /\ job_loops.keyword = "running"
    /\ \E fail_at \in 1..(Len(query_analytics) + 1) :
         LET raised == fail_at <= Len(query_analytics)
         IN  /\ query_analytics' =
                   update_query_keywords_batch(query_analytics, fail_at)
             /\ job_loops' =
                   [job_loops EXCEPT !.keyword = JobLoopAfter(raised)]
             /\ last_cycle' = IF raised THEN "keywords_failed"
                              ELSE "keywords"
    /\ UNCHANGED <<admin_notifications, anomalies>>
    /\ UNCHANGED <<driverVars, sessionVars, initVars>>

\* one iteration of _anomaly_job_loop
AnomalyCycle ==
    /\ job_loops.anomaly = "running"
    /\ Len(admin_notifications) + Cardinality(anomalies)
          <= MaxNotifications
    /\ \E fail_at \in 1..(Cardinality(anomalies) + 1) :
         LET raised == fail_at <= Cardinality(anomalies)
         IN  /\ admin_notifications' =
                   run_anomaly_checks(admin_notifications, anomalies,
                                      fail_at)
             /\ job_loops' =
                   [job_loops EXCEPT !.anomaly = JobLoopAfter(raised)]
             /\ last_cycle' = IF raised THEN "anomaly_failed"
                              ELSE "anomaly"
    /\ UNCHANGED <<query_analytics, anomalies>>
    /\ UNCHANGED <<driverVars, sessionVars, initVars>>

MaintNext ==
    \/ QueryLogged
    \/ TrafficChanges
    \/ KeywordCycle
    \/ AnomalyCycle

MaintSpec == Init /\ [][MaintNext]_vars

\* C22: each background maintenance cycle is idempotent (a cycle that
\* follows a completed cycle of the same job on an unchanged store changes
\* nothing), and a cycle that raises does not end its loop.
C22_CyclesIdempotent ==
    [][/\ (last_cycle = "keywords" /\ last_cycle' = "keywords") =>
              query_analytics' = query_analytics
       /\ (last_cycle = "anomaly" /\ last_cycle' = "anomaly") =>
              admin_notifications' = admin_notifications
       /\ job_loops' = [keyword |-> "running", anomaly |-> "running"]]_vars

\* the keyword backfill alone: repeating a completed cycle changes no row
C22_KeywordBackfillIdempotent ==
    [][(last_cycle = "keywords" /\ last_cycle' = "keywords") =>
           query_analytics' = query_analytics]_vars

\* the loops alone: no cycle, raising or not, ends its loop
C22_LoopsSurvive ==
    job_loops = [keyword |-> "running", anomaly |-> "running"]

\* ------------------------------------ two requests of one chat session
\* answer texts a stream can end with
Answers == {<<>>, <<"a">>}

\* the turn save_chat_message appends for request r
Turn(role, r, content) == [role |-> role, req |-> r, content |-> content]

\* lines 262-271: chat_api fetches the session's messages before it
\* streams; get_chat_messages returns them with status 200, or fails
LoadHistory(r) ==
    /\ req_pc[r] = "idle"
    /\ \E status \in {200, 500} :
         history' = [history EXCEPT ![r] =
                        [status |-> status,
                         messages |-> IF status = 200 THEN session_store
                                      ELSE <<>>]]
    /\ req_pc' = [req_pc EXCEPT ![r] = "streaming"]
    /\ UNCHANGED <<answer, save_pc, session_store>>
    /\ UNCHANGED <<driverVars, initVars, maintVars>>

\* lines 414-418 and 450: generate() of request r yields its terminal
\* record, the completion record or the error record, with the answer
\* text accumulated so far
EmitTerminal(r) ==
    /\ req_pc[r] = "streaming"
    /\ \E text \in Answers, terminal \in {"y_done", "y_error"} :
         /\ answer' = [answer EXCEPT ![r] = text]
         /\ req_pc' = [req_pc EXCEPT ![r] = terminal]
    /\ UNCHANGED <<history, save_pc, session_store>>
    /\ UNCHANGED <<driverVars, initVars, maintVars>>

\* lines 420-421 and 453-454: generate() is resumed after the terminal
\* record and starts the persistence thread (after an error only "if
\* bot_response"), then ends
StartThread(r) ==
    /\ req_pc[r] \in {"y_done", "y_error"}
    /\ save_pc' = [save_pc EXCEPT ![r] =
                      IF req_pc[r] = "y_done" \/ answer[r] # <<>>
                      THEN "save_user" ELSE "idle"]
    /\ req_pc' = [req_pc EXCEPT ![r] = "finished"]
    /\ UNCHANGED <<history, answer, session_store>>
    /\ UNCHANGED <<driverVars, initVars, maintVars>>

\* lines 296-301 in the thread of request r
ThreadSaveUser(r) ==
    /\ save_pc[r] = "save_user"
    /\ \E outcome \in SaveOutcomes :
         /\ session_store' =
               IF outcome = "ok"
               THEN Append(session_store, Turn("user", r, user_message))
               ELSE session_store
         /\ save_pc' = [save_pc EXCEPT ![r] = OuterExcept(outcome,
                                                          "save_bot")]
    /\ UNCHANGED <<req_pc, history, answer>>
    /\ UNCHANGED <<driverVars, initVars, maintVars>>

\* lines 303-309 in the thread of request r
ThreadSaveBot(r) ==
    /\ save_pc[r] = "save_bot"
    /\ IF ShouldSaveBot(answer[r])
       THEN \E outcome \in SaveOutcomes :
              session_store' =
                 IF outcome = "ok"
                 THEN Append(session_store, Turn("bot", r, answer[r]))
                 ELSE session_store
       ELSE UNCHANGED session_store
    /\ save_pc' = [save_pc EXCEPT ![r] = "done"]
    /\ UNCHANGED <<req_pc, history, answer>>
    /\ UNCHANGED <<driverVars, initVars, maintVars>>

SessionNext ==
    \E r \in Requests :
        \/ LoadHistory(r)
        \/ EmitTerminal(r)
        \/ StartThread(r)
        \/ ThreadSaveUser(r)
        \/ ThreadSaveBot(r)

SessionSpec == Init /\ [][SessionNext]_vars

\* the positions of chat_api at which the terminal record has been sent
TerminalEmitted == {"y_done", "y_error", "finished"}
InSeq(x, s) == \E i \in 1..Len(s) : s[i] = x

\* C25: the history a request loads contains the user turn and the
\* assistant turn of every other request of the session whose stream has
\* already emitted its terminal record.
C25_HistoryHasFinishedTurns ==
    [][\A r \in Requests :
          (req_pc[r] = "idle" /\ req_pc'[r] = "streaming"
                              /\ history'[r].status = 200) =>
             \A q \in Requests \ {r} :
                req_pc[q] \in TerminalEmitted =>
                   /\ InSeq(Turn("user", q, user_message),
                            history'[r].messages)
                   /\ answer[q] # <<>> =>
                         InSeq(Turn("bot", q, answer[q]),
                               history'[r].messages)]_vars

\* the same for earlier requests whose persistence thread has ended
\* without a failing save: then the turns are in the loaded history
C25_HistoryHasSavedTurns ==
    [][\A r \in Requests :
          (req_pc[r] = "idle" /\ req_pc'[r] = "streaming"
                              /\ history'[r].status = 200) =>
             \A q \in Requests \ {r} :
                (save_pc[q] = "done"
                    /\ InSeq(Turn("user", q, user_message), session_store))
                => InSeq(Turn("user", q, user_message),
                         history'[r].messages)]_vars

\* C26: the store receives each request's user turn immediately followed
\* by that request's assistant turn; turns of different requests are
\* never interleaved in the append order.
C26_TurnsNotInterleaved ==
    \A i \in 1..Len(session_store), j \in 1..Len(session_store) :
        (i < j /\ session_store[i].req = session_store[j].req) => j = i + 1

\* ------------------------------------------------ create_app (start-up)
\* line 110: "for attempt in range(1, 6)"
ProbeAttempts == 5

\* lines 52-54: create_app marks the start-up as begun
BeginInit ==
    /\ init_pc.main = "start"
    /\ init_state' = [init_state EXCEPT !.status = "initializing"]
    /\ init_pc' = [init_pc EXCEPT !.main = "supabase"]
    /\ UNCHANGED attempt
    /\ UNCHANGED <<driverVars, sessionVars, maintVars>>

\* lines 57-69: the synchronous Supabase initialisation
InitSupabase ==
    /\ init_pc.main = "supabase"
    /\ \E ok \in BOOLEAN :
         init_state' = [init_state EXCEPT
                           !.supabase = IF ok THEN "complete" ELSE "failed"]
    /\ init_pc' = [init_pc EXCEPT !.main = "check_key"]
    /\ UNCHANGED attempt
    /\ UNCHANGED <<driverVars, sessionVars, maintVars>>

\* lines 72-81: no GOOGLE_API_KEY
KeyMissing ==
    /\ init_pc.main = "check_key"
    /\ init_state' = [init_state EXCEPT !.rag = "disabled",
                                        !.analytics = "disabled",
                                        !.status = "complete"]
    /\ init_pc' = [init_pc EXCEPT !.main = "ready"]
    /\ UNCHANGED attempt
    /\ UNCHANGED <<driverVars, sessionVars, maintVars>>

\* lines 82-187: the key is set; the two daemon threads are started and
\* create_app goes on to return the app
StartInitThreads ==
    /\ init_pc.main = "check_key"
    /\ init_pc' = [main |-> "ready", rag |-> "begin", analytics |-> "begin"]
    /\ UNCHANGED <<init_state, attempt>>
    /\ UNCHANGED <<driverVars, sessionVars, maintVars>>

\* lines 89-103: initialize_rag_async up to the connectivity probe
RagBegin ==
    /\ init_pc.rag = "begin"
    /\ \E missing_configs \in BOOLEAN :
         IF missing_configs
         THEN /\ init_state' = [init_state EXCEPT !.rag = "failed"]
              /\ init_pc' = [init_pc EXCEPT !.rag = "ended"]
              /\ UNCHANGED attempt
         ELSE /\ init_state' = [init_state EXCEPT !.rag = "initializing"]
              /\ init_pc' = [init_pc EXCEPT !.rag = "probe"]
              /\ attempt' = 1
    /\ UNCHANGED <<driverVars, sessionVars, maintVars>>

\* lines 110-129: one attempt of the probe; success leaves the loop, a
\* failure sleeps and tries again while attempt < 5, and after the last
\* attempt the thread marks the service failed and returns
QdrantProbe ==
    /\ init_pc.rag = "probe"
    /\ \E qdrant_ok \in BOOLEAN :
         IF qdrant_ok
         THEN /\ init_pc' = [init_pc EXCEPT !.rag = "build"]
              /\ UNCHANGED <<init_state, attempt>>
         ELSE IF attempt < ProbeAttempts
              THEN /\ attempt' = attempt + 1
                   /\ UNCHANGED <<init_state, init_pc>>
              ELSE /\ init_state' = [init_state EXCEPT !.rag = "failed"]
                   /\ init_pc' = [init_pc EXCEPT !.rag = "ended"]
                   /\ UNCHANGED attempt
    /\ UNCHANGED <<driverVars, sessionVars, maintVars>>

\* lines 131-149: initialize_rag_service returns or raises
RagBuild ==
    /\ init_pc.rag = "build"
    /\ \E ok \in BOOLEAN :
         init_state' = [init_state EXCEPT
                           !.rag = IF ok THEN "complete" ELSE "failed"]
    /\ init_pc' = [init_pc EXCEPT !.rag = "ended"]
    /\ UNCHANGED attempt
    /\ UNCHANGED <<driverVars, sessionVars, maintVars>>

\* lines 153-156: initialize_analytics_async begins
AnalyticsBegin ==
    /\ init_pc.analytics = "begin"
    /\ init_state' = [init_state EXCEPT !.analytics = "initializing"]
    /\ init_pc' = [init_pc EXCEPT !.analytics = "run"]
    /\ UNCHANGED attempt
    /\ UNCHANGED <<driverVars, sessionVars, maintVars>>

\* lines 157-175: initialize_analytics_service returns or raises
AnalyticsFinish ==
    /\ init_pc.analytics = "run"
    /\ \E ok \in BOOLEAN :
         init_state' = [init_state EXCEPT
                           !.analytics = IF ok THEN "complete"
                                         ELSE "failed"]
    /\ init_pc' = [init_pc EXCEPT !.analytics = "ended"]
    /\ UNCHANGED attempt
    /\ UNCHANGED <<driverVars, sessionVars, maintVars>>

InitNext ==
    \/ BeginInit
    \/ InitSupabase
    \/ KeyMissing
    \/ StartInitThreads
    \/ RagBegin
    \/ QdrantProbe
    \/ RagBuild
    \/ AnalyticsBegin
    \/ AnalyticsFinish

InitSpec == Init /\ [][InitNext]_vars

\* C30: once the RAG and the analytics background initialisations have
\* each finished, succeeded or failed, the global status has left
\* 'initializing' for 'complete' or 'error'.
C30_StatusBecomesTerminal ==
    (init_pc.rag = "ended" /\ init_pc.analytics = "ended") =>
        init_state.status \in {"complete", "error"}

\* the probe part of the claim: the probe gives up after at most five
\* attempts, and both threads do finish
C30_ProbeGivesUp ==
    /\ attempt <= ProbeAttempts
    /\ init_pc.rag = "ended" =>
          init_state.rag \in {"complete", "failed"}

\* on the branch without a key the status is terminal at once
C30_DisabledIsComplete ==
    init_state.rag = "disabled" => init_state.status = "complete"

====
